---- MODULE Spec2Model ----
(***************************************************************************)
(* CrystalDFTConfiguration (src/src/CrystalDFTConfiguration.cpp): the      *)
(* scanner of a CRYSTAL .outp file and the assembler of the record the     *)
(* exciton code consumes.                                                  *)
(*                                                                         *)
(* The file is a sequence of lines.  A line is the marker phrases it       *)
(* contains (what line.find() can see) and the whitespace separated tokens *)
(* that follow them (what an istringstream extracts).  Numbers are         *)
(* integers: the model keeps values exact and leaves rounding out.         *)
(***************************************************************************)
EXTENDS Integers, Sequences, FiniteSets, TLC

\* ------------------------------------------------------------------ bounds
MaxDim == 3
MaxCoef == 3

\* ------------------------------------------------------------------ text
\* A token: a number, or a word no numeric extraction accepts.
Num(v) == [num |-> TRUE, v |-> v, w |-> ""]
Word(w) == [num |-> FALSE, v |-> 0, w |-> w]
\* A line: the marker phrases it contains, the tokens after them, and
\* whether a newline ends it (only the last line of a text may lack one).
Line(marks, toks) == [marks |-> marks, toks |-> toks, nl |-> TRUE]
NoNewline(line) == [line EXCEPT !.nl = FALSE]
EmptyLine == Line({}, <<>>)
NumLine(vs) == Line({}, [i \in 1..Len(vs) |-> Num(vs[i])])

SOC_STRING == "to_be_defined_for_crystal23"
MAGNETIC_STRING == "UNRESTRICTED OPEN SHELL"

\* The needles of parseContent that occur inside a marker phrase.
Needles(phrase) ==
    CASE phrase = "N. OF ATOMS PER CELL" -> {phrase, "ATOM"}
      [] phrase = "NUMBER OF SHELLS" -> {phrase, "SHELL"}
      [] phrase = "N. OF ELECTRONS PER CELL" -> {phrase, "ELECTRONS"}
      [] phrase = "CORE ELECTRONS PER CELL" -> {phrase, "ELECTRONS"}
      [] phrase = "LOCAL ATOMIC FUNCTIONS BASIS SET" -> {phrase, "ATOM"}
      [] phrase = "OVERLAP MATRIX - CELL N." -> {phrase, "OVERLAP MATRIX"}
      [] phrase = "FOCK MATRIX - CELL N." -> {phrase, "FOCK MATRIX"}
      [] phrase = MAGNETIC_STRING -> {phrase, "SHELL"}
      [] OTHER -> {phrase}

\* line.find(needle) != std::string::npos
Find(line, needle) == \E p \in line.marks : needle \in Needles(p)

\* line.empty()
IsEmpty(line) == line.marks = {} /\ line.toks = <<>>

\* The tokens an istringstream over the whole line meets: the marker text
\* comes first and is no number.
FullToks(line) == IF line.marks = {} THEN line.toks ELSE <<Word("text")>> \o line.toks

\* line = line.substr(pos + strsize, line.length()): what follows the marker.
Substr(line) == Line({}, line.toks)

RECURSIVE NumPrefix(_)
\* while(iss >> x) push x: the values of the leading numeric tokens.
NumPrefix(toks) ==
    IF toks = <<>> \/ ~Head(toks).num THEN <<>>
    ELSE <<Head(toks).v>> \o NumPrefix(Tail(toks))

\* iss >> n for one integer: 0 when the extraction fails.
FirstInt(toks) == IF toks # <<>> /\ Head(toks).num THEN Head(toks).v ELSE 0

\* ------------------------------------------------------------------ stream
\* std::getline(m_file, line) with the stream at line p: past the last line
\* the read fails and the line comes back empty.
HasLine(f, p) == p < Len(f)
GetLine(f, p) == IF HasLine(f, p) THEN f[p + 1] ELSE EmptyLine
Advance(f, p) == IF HasLine(f, p) THEN p + 1 ELSE p

\* The text ends without a newline: reading its last line sets eofbit.
EndsOpen(f) == f # <<>> /\ ~f[Len(f)].nl

\* std::getline(m_file, line) into a string that holds prev.  A failed read
\* on a stream that is still good erases the string and sets eofbit; with
\* eofbit set already the string is left as it was.
GetLineKeeping(f, p, prev) ==
    IF HasLine(f, p) THEN f[p + 1]
    ELSE IF EndsOpen(f) THEN prev
    ELSE EmptyLine

\* ------------------------------------------------------------------ matrices
\* A matrix is the sequence of its rows; a cube is the sequence of its slices.
Zeros(n) == [r \in 1..n |-> [c \in 1..n |-> 0]]
Side(M) == Len(M)

\* ------------------------------------------------------------------ parseMatrix
\* Whether scattering n values of row rowIndex leaves the matrix or the
\* list of column indices.
OutOfBounds(m, rowIndex, n, D) ==
    \/ n > Len(m.colIndices)
    \/ n > 0 /\ rowIndex \notin 1..D
    \/ \E i \in 1..n : i <= Len(m.colIndices) /\ m.colIndices[i] \notin 1..D

\* The last of the first n column indices that equals c, 0 when none does.
LastAt(colIndices, n, c) ==
    IF \E i \in 1..n : colIndices[i] = c
    THEN CHOOSE i \in 1..n : colIndices[i] = c /\ \A j \in (i + 1)..n : colIndices[j] # c
    ELSE 0

\* Scatter with the corner test on the row alone: the parse stops at the
\* last row of the first column block.
ScatterRowOnly(m, rowIndex, coefs, D) ==
    IF OutOfBounds(m, rowIndex, Len(coefs), D)
    THEN [m EXCEPT !.rowIndex = rowIndex, !.status = "oob"]
    ELSE IF coefs = <<>>
    THEN [m EXCEPT !.rowIndex = rowIndex,
                   !.status = IF rowIndex = D THEN "returned" ELSE "running"]
    ELSE [m EXCEPT !.rowIndex = rowIndex,
                   !.colIndex = m.colIndices[Len(coefs)],
                   !.matrix = [r \in 1..D |-> [c \in 1..D |->
                       IF r = rowIndex /\ LastAt(m.colIndices, Len(coefs), c) # 0
                       THEN coefs[LastAt(m.colIndices, Len(coefs), c)]
                       ELSE m.matrix[r][c]]],
                   !.status = IF rowIndex = D THEN "returned" ELSE "running"]

\* matrix(rowIndex - 1, colIndex - 1) = coef for each value of the line, and
\* the test for the bottom-right corner.
Scatter(m, rowIndex, coefs, D) ==
    IF OutOfBounds(m, rowIndex, Len(coefs), D)
    THEN [m EXCEPT !.rowIndex = rowIndex, !.status = "oob"]
    ELSE IF coefs = <<>>
    THEN [m EXCEPT !.rowIndex = rowIndex,
                   !.status = IF rowIndex = D /\ m.colIndex = D THEN "returned"
                              ELSE "running"]
    ELSE [m EXCEPT !.rowIndex = rowIndex,
                   !.colIndex = m.colIndices[Len(coefs)],
                   !.matrix = [r \in 1..D |-> [c \in 1..D |->
                       IF r = rowIndex /\ LastAt(m.colIndices, Len(coefs), c) # 0
                       THEN coefs[LastAt(m.colIndices, Len(coefs), c)]
                       ELSE m.matrix[r][c]]],
                   !.status = IF rowIndex = D /\ m.colIndices[Len(coefs)] = D
                              THEN "returned" ELSE "running"]

\* iss >> rowIndex; while(iss >> coef): the body of parseMatrix on a data line.
PMData(m, line, D) ==
    IF FullToks(line) # <<>> /\ Head(FullToks(line)).num
    THEN Scatter(m, Head(FullToks(line)).v, NumPrefix(Tail(FullToks(line))), D)
    ELSE Scatter(m, 0, <<>>, D)

\* The blank-line branch: the column indices are read from the next line, and
\* the line after that is a data line unless it is blank too.
PMBlock(f, m, D, p1) ==
    IF IsEmpty(GetLine(f, Advance(f, p1)))
    THEN [m EXCEPT !.pos = Advance(f, Advance(f, p1)),
                   !.colIndices = NumPrefix(FullToks(GetLine(f, p1)))]
    ELSE PMData([m EXCEPT !.pos = Advance(f, Advance(f, p1)),
                          !.colIndices = NumPrefix(FullToks(GetLine(f, p1)))],
                GetLine(f, Advance(f, p1)), D)

\* One turn of the while loop of parseMatrix over file f.
PMIter(f, m, D) ==
    IF ~HasLine(f, m.pos) THEN [m EXCEPT !.status = "eof"]
    ELSE IF IsEmpty(f[m.pos + 1]) THEN PMBlock(f, m, D, m.pos + 1)
    ELSE PMData([m EXCEPT !.pos = m.pos + 1], f[m.pos + 1], D)

RECURSIVE PMLoopOneMore(_, _, _)
\* The loop reading one more line after the corner before it returns.
PMLoopOneMore(f, m, D) ==
    IF m.status = "returned" THEN [m EXCEPT !.pos = Advance(f, m.pos)]
    ELSE IF m.status # "running" THEN m
    ELSE PMLoopOneMore(f, PMIter(f, m, D), D)

RECURSIVE PMLoop(_, _, _)
\* while(std::getline(m_file, line)) until the return at the corner.
PMLoop(f, m, D) == IF m.status # "running" THEN m ELSE PMLoop(f, PMIter(f, m, D), D)

\* parseMatrix called with the stream at line pos: the matrix, where the
\* stream stands afterwards, and how the loop ended ("returned" at the corner,
\* "eof" when it ran off the stream, "oob" on an index outside its container).
parseMatrix(f, pos, D) ==
    PMLoop(f, [pos |-> pos, matrix |-> Zeros(D), colIndices |-> <<>>,
               colIndex |-> 0, rowIndex |-> 0, status |-> "running"], D)

\* ------------------------------------------------------------------ blocked text
\* The text CRYSTAL prints for matrix M with its columns cut into the
\* consecutive blocks of widths ws: per block a blank line, the line of
\* column indices, one line per row.
RECURSIVE Blocks(_, _, _)
Blocks(M, ws, first) ==
    IF ws = <<>> THEN <<>>
    ELSE LET cols == [i \in 1..Head(ws) |-> first + i - 1]
         IN <<EmptyLine, NumLine(cols)>>
            \o [r \in 1..Len(M) |-> NumLine(<<r>> \o [i \in 1..Head(ws) |-> M[r][cols[i]]])]
            \o Blocks(M, Tail(ws), first + Head(ws))

\* ------------------------------------------------------------------ lattice
\* parseVectors (ConfigurationBase): one row of three numbers per line.
parseVectors(lines) ==
    [i \in 1..Len(lines) |->
        LET v == NumPrefix(FullToks(lines[i]))
        IN [k \in 1..3 |-> IF k <= Len(v) THEN v[k] ELSE 0]]

\* parseVectors accepts the lines: each holds three numbers.
VectorsOk(lines) ==
    \A i \in 1..Len(lines) : Len(NumPrefix(FullToks(lines[i]))) = 3

\* arma::norm(row) > threshold, on the squares (both sides are >= 0).
NormExceeds(row, threshold) ==
    row[1] * row[1] + row[2] * row[2] + row[3] * row[3] > threshold * threshold

\* bravaisLattice.shed_row(i), i counted from 1 here.
ShedRow(rows, i) == [k \in 1..(Len(rows) - 1) |-> IF k < i THEN rows[k] ELSE rows[k + 1]]

RECURSIVE ExtractLoop(_, _, _)
\* The for loop of extractDimension: i runs on while i < n_rows, and n_rows
\* shrinks with every row shed.
ExtractLoop(rows, i, threshold) ==
    IF i > Len(rows) THEN rows
    ELSE IF NormExceeds(rows[i], threshold)
         THEN ExtractLoop(ShedRow(rows, i), i + 1, threshold)
         ELSE ExtractLoop(rows, i + 1, threshold)

\* ndim = bravaisLattice.n_rows
SetDimension(s, kept) == [s EXCEPT !.bravaisLattice = kept, !.ndim = Len(kept)]

extractDimension(s, threshold) ==
    SetDimension(s, ExtractLoop(s.bravaisLattice, 1, threshold))

\* The third getline of parseBravaisLattice, the first two lines in hand.
LatticeLines(f, l1, l2, p2) == <<l1, l2, GetLineKeeping(f, p2, l2)>>

\* The three getline calls of parseBravaisLattice into its local string,
\* empty at first.
ReadVectors(f, p0, l1) ==
    LatticeLines(f, l1, GetLineKeeping(f, Advance(f, p0), l1),
                 Advance(f, Advance(f, p0)))

\* bravaisLattice = parseVectors(vectors); extractDimension(threshold)
StoreLattice(s, vectors, p3, threshold) ==
    IF ~VectorsOk(vectors) THEN [s EXCEPT !.pos = p3, !.pc = "logic_error"]
    ELSE extractDimension([s EXCEPT !.pos = p3,
                                    !.bravaisLattice = parseVectors(vectors)],
                          threshold)

parseBravaisLattice(s, f, threshold) ==
    StoreLattice(s, ReadVectors(f, s.pos, GetLineKeeping(f, s.pos, EmptyLine)),
                 Advance(f, Advance(f, Advance(f, s.pos))), threshold)

\* ------------------------------------------------------------------ atoms
\* Position of label in the species list, 0 when absent (std::find).
IndexOf(species, label) ==
    IF \E i \in 1..Len(species) : species[i] = label
    THEN CHOOSE i \in 1..Len(species) : species[i] = label
    ELSE 0

\* iss >> index >> natom >> chemical_species >> nshells >> x >> y >> z.
\* A line of another shape leaves the values of the previous record behind.
AtomRecord(line, prev) ==
    LET t == FullToks(line)
    IN IF /\ Len(t) >= 7 /\ t[1].num /\ t[2].num /\ ~t[3].num
          /\ t[4].num /\ t[5].num /\ t[6].num /\ t[7].num
       THEN [label |-> t[3].w, nshells |-> t[4].v, xyz |-> <<t[5].v, t[6].v, t[7].v>>]
       ELSE prev

\* The index taken after the label has been inserted into the map.
NewSpeciesIndexAfterInsert(map) == Cardinality(DOMAIN map) + 1

\* chemical_species_to_index[label] = chemical_species_to_index.size(): the
\* right operand is evaluated before the element is inserted.
NewSpeciesIndex(map) == Cardinality(DOMAIN map)

\* One turn of the for loop of parseAtoms.
AtomStep(a, line) ==
    LET rec == AtomRecord(line, a.rec)
        isNew == IndexOf(a.species, rec.label) = 0
        map == IF isNew
               THEN [l \in DOMAIN a.map \cup {rec.label} |->
                       IF l = rec.label THEN NewSpeciesIndex(a.map) ELSE a.map[l]]
               ELSE a.map
    IN [a EXCEPT !.rec = rec,
                 !.species = IF isNew THEN Append(@, rec.label) ELSE @,
                 !.shellsPerSpecies = IF isNew THEN Append(@, rec.nshells) ELSE @,
                 !.nspecies = IF isNew THEN @ + 1 ELSE @,
                 !.map = map,
                 !.motif = Append(@, rec.xyz \o <<map[rec.label]>>)]

RECURSIVE AtomLoop(_, _, _, _)
AtomLoop(f, p, n, a) ==
    IF n = 0 THEN [a EXCEPT !.pos = p]
    ELSE AtomLoop(f, Advance(f, p), n - 1, AtomStep(a, GetLine(f, p)))

\* this->motif = motif; this->shellsPerSpecies = ...; this->nspecies = ...
StoreAtoms(s, a) ==
    [s EXCEPT !.pos = a.pos, !.motif = a.motif,
              !.shellsPerSpecies = a.shellsPerSpecies, !.nspecies = a.nspecies]

parseAtoms(s, f) ==
    StoreAtoms(s, AtomLoop(f, Advance(f, s.pos), s.natoms,
                      [rec |-> [label |-> "", nshells |-> 0, xyz |-> <<0, 0, 0>>],
                       species |-> <<>>, shellsPerSpecies |-> <<>>, nspecies |-> 0,
                       map |-> <<>>, motif |-> <<>>, pos |-> 0]))

\* ------------------------------------------------------------------ basis
\* size of split(line, tokenized_line): the leading numeric tokens.
split(line) == Len(NumPrefix(FullToks(line)))

\* iss >> norbitals >> shellType, and once more when shellType is "-".
ShellHeader(line, prev) ==
    LET t == FullToks(line)
    IN IF Len(t) >= 4 /\ t[1].num /\ t[2] = Word("-") /\ t[3].num /\ ~t[4].num
       THEN [norbitals |-> t[3].v, shellType |-> t[4].w]
       ELSE IF Len(t) >= 2 /\ t[1].num /\ ~t[2].num
       THEN [norbitals |-> t[1].v, shellType |-> t[2].w]
       ELSE [norbitals |-> FirstInt(t), shellType |-> prev.shellType]

RECURSIVE CoefLoopNoRestore(_, _, _)
\* The table loop leaving the stream after the line that ended the table.
CoefLoopNoRestore(f, p, coefList) ==
    IF ~HasLine(f, p) THEN [pos |-> p, coefList |-> coefList]
    ELSE IF split(f[p + 1]) # 4 THEN [pos |-> p + 1, coefList |-> coefList]
    ELSE CoefLoopNoRestore(f, p + 1, Append(coefList, NumPrefix(FullToks(f[p + 1]))))

RECURSIVE CoefLoop(_, _, _)
\* The table of one shell: rows are taken while they split into 4 numbers;
\* the first line that does not is handed back (seekg to its beginning).
CoefLoop(f, p, coefList) ==
    IF ~HasLine(f, p) THEN [pos |-> p, coefList |-> coefList]
    ELSE IF split(f[p + 1]) # 4 THEN [pos |-> p, coefList |-> coefList]
    ELSE CoefLoop(f, p + 1, Append(coefList, NumPrefix(FullToks(f[p + 1]))))

\* One shell read: its header hdr and its table tab.
OneShell(b, hdr, tab) ==
    [b EXCEPT !.pos = tab.pos, !.hdr = hdr, !.read = TRUE,
              !.shellTypes = Append(@, hdr.shellType),
              !.coefs = Append(@, tab.coefList)]

RECURSIVE ShellLoop(_, _, _)
\* The shells of a new species; n is the number still to read.
ShellLoop(f, n, b) ==
    IF n <= 0 THEN b
    ELSE ShellLoop(f, n - 1, OneShell(b, ShellHeader(GetLine(f, b.pos), b.hdr),
                                      CoefLoop(f, Advance(f, b.pos), <<>>)))

\* The cumulative total recorded as it stands, nothing taken off.
SpeciesOrbitalsTotal(norbitals, totalOrbitals) == norbitals

\* orbitalsPerSpecies.push_back(norbitals - totalOrbitals)
SpeciesOrbitals(norbitals, totalOrbitals) == norbitals - totalOrbitals

\* map[key] = value on a std::map keyed by the species number.
MapPut(map, key, value) ==
    [k \in DOMAIN map \cup {key} |-> IF k = key THEN value ELSE map[k]]

\* The atom of a species seen before: only the running total moves.
\* Reading orbitalsPerSpecies outside its range is undefined.
SeenSpecies(b, label, p1, atomIndex) ==
    IF atomIndex <= Len(b.motif)
       /\ b.motif[atomIndex][4] + 1 \in 1..Len(b.orbitalsPerSpecies)
    THEN [b EXCEPT !.pos = p1, !.label = label,
                   !.totalOrbitals = @ + b.orbitalsPerSpecies[b.motif[atomIndex][4] + 1]]
    ELSE [b EXCEPT !.pos = p1, !.label = label, !.undefined = TRUE]

\* The first atom of a species, its shells sh read.  norbitals read before
\* any shell header set it is undefined.
NewSpecies(b, label, sh) ==
    IF ~sh.read
    THEN [b EXCEPT !.pos = sh.pos, !.label = label, !.undefined = TRUE]
    ELSE [b EXCEPT !.pos = sh.pos, !.label = label, !.hdr = sh.hdr,
                   !.hdrSet = TRUE,
                   !.species = Append(@, label),
                   !.gaussianCoefficients =
                       IF sh.coefs = <<>> THEN @ ELSE MapPut(@, b.nspecies, sh.coefs),
                   !.shellTypesPerSpecies = MapPut(@, b.nspecies, sh.shellTypes),
                   !.orbitalsPerSpecies =
                       Append(@, SpeciesOrbitals(sh.hdr.norbitals, b.totalOrbitals)),
                   !.totalOrbitals = sh.hdr.norbitals,
                   !.nspecies = @ + 1]

\* iss >> natom >> chemical_species
BasisLabel(line, prev) ==
    IF Len(FullToks(line)) >= 2 /\ FullToks(line)[1].num /\ ~FullToks(line)[2].num
    THEN FullToks(line)[2].w ELSE prev

\* The rest of a turn of the atom loop, the species label in hand.
\* shellsPerSpecies[nspecies] outside its range is undefined.
BasisAtom(f, b, label, p1, atomIndex) ==
    IF IndexOf(b.species, label) # 0 THEN SeenSpecies(b, label, p1, atomIndex)
    ELSE IF b.nspecies + 1 > Len(b.shellsPerSpecies)
    THEN [b EXCEPT !.pos = p1, !.label = label, !.undefined = TRUE]
    ELSE NewSpecies(b, label,
            ShellLoop(f, b.shellsPerSpecies[b.nspecies + 1],
                      [pos |-> p1, hdr |-> b.hdr, read |-> b.hdrSet,
                       shellTypes |-> <<>>, coefs |-> <<>>]))

\* One turn of the atom loop of parseAtomicBasis; b carries the locals,
\* atomIndex counted from 1.
BasisStep(f, b, atomIndex) ==
    BasisAtom(f, b, BasisLabel(GetLine(f, b.pos), b.label), Advance(f, b.pos), atomIndex)

RECURSIVE BasisLoop(_, _, _, _)
BasisLoop(f, b, atomIndex, natoms) ==
    IF atomIndex > natoms \/ b.undefined THEN b
    ELSE BasisLoop(f, BasisStep(f, b, atomIndex), atomIndex + 1, natoms)

\* What parseAtomicBasis leaves in the object.
StoreBasis(s, b) ==
    [s EXCEPT !.pos = b.pos,
              !.orbitalsPerSpecies = b.orbitalsPerSpecies,
              !.gaussianCoefficients = b.gaussianCoefficients,
              !.shellTypesPerSpecies = b.shellTypesPerSpecies,
              !.pc = IF b.undefined THEN "undefined" ELSE @]

parseAtomicBasis(s, f) ==
    StoreBasis(s, BasisLoop(f,
                 [pos |-> Advance(f, Advance(f, Advance(f, s.pos))),
                  label |-> "", hdr |-> [norbitals |-> 0, shellType |-> ""],
                  hdrSet |-> FALSE,
                  species |-> <<>>, nspecies |-> 0, totalOrbitals |-> 0,
                  motif |-> s.motif, shellsPerSpecies |-> s.shellsPerSpecies,
                  orbitalsPerSpecies |-> s.orbitalsPerSpecies,
                  gaussianCoefficients |-> s.gaussianCoefficients,
                  shellTypesPerSpecies |-> s.shellTypesPerSpecies,
                  undefined |-> FALSE],
                 1, s.natoms))

\* ------------------------------------------------------------------ parseContent
\* iss >> cellIndex >> parenthesis >> x >> y >> z on the text after the marker.
MatrixMarker(line) ==
    LET t == line.toks
    IN IF Len(t) >= 5 /\ t[1].num /\ ~t[2].num /\ t[3].num /\ t[4].num /\ t[5].num
       THEN [cellIndex |-> t[1].v, coef |-> <<t[3].v, t[4].v, t[5].v>>]
       ELSE [cellIndex |-> FirstInt(t), coef |-> <<0, 0, 0>>]

RECURSIVE CellVector(_, _, _, _)
\* cell += bravaisLattice.row(i) * coefCombinations[i] for i < ndim, on top
\* of what arma::rowvec(3) holds when constructed.
CellVector(cell, lattice, coef, i) ==
    IF i = 0 THEN cell
    ELSE LET c == CellVector(cell, lattice, coef, i - 1)
         IN [k \in 1..3 |-> c[k] + lattice[i][k] * coef[i]]

\* arma::join_slices(cube, matrix) throws on slices of another size.
JoinOk(cube, M) == cube = <<>> \/ Side(cube[1]) = Side(M)

\* What the caller of parseMatrix goes on with.  Leaving the loop at the end
\* of the stream flows off the end of a function that returns a value: the
\* caller gets the partly filled matrix, or anything else (ub is the build's
\* pick).  An index outside its container is undefined as well.
MatrixOutcome(m, ub) ==
    IF m.status = "returned" THEN "ok"
    ELSE IF m.status = "eof" /\ ub = "partial" THEN "ok"
    ELSE "undefined"

\* The limit test left out: every cell is taken.
AcceptedAlways(cellIndex, ncells) == TRUE

\* if(cellIndex <= ncells)
Accepted(cellIndex, ncells) == cellIndex <= ncells

\* An accepted overlap section: the translation vector is appended, then the
\* matrix m that parseMatrix gave.
OverlapAccepted(s, mk, cell, m, ub) ==
    IF MatrixOutcome(m, ub) # "ok"
    THEN [s EXCEPT !.pos = m.pos, !.pc = "undefined",
                   !.bravaisVectors = Append(@, cell)]
    ELSE IF ~JoinOk(s.overlapMatrices, m.matrix)
    THEN [s EXCEPT !.pos = m.pos, !.pc = "arma_error",
                   !.bravaisVectors = Append(@, cell)]
    ELSE [s EXCEPT !.pos = m.pos,
                   !.bravaisVectors = Append(@, cell),
                   !.overlapMatrices = Append(@, m.matrix),
                   !.tags.vectors = Append(@, mk),
                   !.tags.overlap = Append(@, mk)]

\* The branch with the block of a cell over the limit read by parseMatrix
\* and its result dropped.
OverlapCellConsuming(s, mk, f, ncells, fill, ub) ==
    IF ~Accepted(mk.cellIndex, ncells)
    THEN [s EXCEPT !.pos = parseMatrix(f, s.pos, s.norbitals).pos]
    ELSE IF s.ndim > Len(s.bravaisLattice) THEN [s EXCEPT !.pc = "undefined"]
    ELSE OverlapAccepted(s, mk, CellVector(fill, s.bravaisLattice, mk.coef, s.ndim),
                         parseMatrix(f, s.pos, s.norbitals), ub)

\* The OVERLAP MATRIX branch, the marker mk parsed.  bravaisLattice.row(i)
\* past the last row is undefined.
OverlapCell(s, mk, f, ncells, fill, ub) ==
    IF ~Accepted(mk.cellIndex, ncells) THEN s
    ELSE IF s.ndim > Len(s.bravaisLattice) THEN [s EXCEPT !.pc = "undefined"]
    ELSE OverlapAccepted(s, mk, CellVector(fill, s.bravaisLattice, mk.coef, s.ndim),
                         parseMatrix(f, s.pos, s.norbitals), ub)

OverlapBranch(s, line, f, ncells, fill, ub) ==
    OverlapCell(s, MatrixMarker(Substr(line)), f, ncells, fill, ub)

\* The routing with the spin-orbit flag tested first.
FockRouteSocFirst(s) ==
    IF s.SOC_FLAG THEN "none"
    ELSE IF s.MAGNETIC_FLAG THEN (IF s.alpha_electrons THEN "alpha" ELSE "beta")
    ELSE "fock"

\* Where an accepted Fock matrix goes.
FockRoute(s) ==
    IF s.MAGNETIC_FLAG THEN (IF s.alpha_electrons THEN "alpha" ELSE "beta")
    ELSE IF s.SOC_FLAG THEN "none"
    ELSE "fock"

\* An accepted Fock section: the matrix m goes where route says.
FockAccepted(s, mk, m, route, ub) ==
    IF MatrixOutcome(m, ub) # "ok" THEN [s EXCEPT !.pos = m.pos, !.pc = "undefined"]
    ELSE IF route = "alpha"
    THEN IF JoinOk(s.alphaMatrices, m.matrix)
         THEN [s EXCEPT !.pos = m.pos, !.alphaMatrices = Append(@, m.matrix),
                        !.tags.alpha = Append(@, mk)]
         ELSE [s EXCEPT !.pos = m.pos, !.pc = "arma_error"]
    ELSE IF route = "beta"
    THEN IF JoinOk(s.betaMatrices, m.matrix)
         THEN [s EXCEPT !.pos = m.pos, !.betaMatrices = Append(@, m.matrix),
                        !.tags.beta = Append(@, mk)]
         ELSE [s EXCEPT !.pos = m.pos, !.pc = "arma_error"]
    ELSE IF route = "none" THEN [s EXCEPT !.pos = m.pos]
    ELSE IF JoinOk(s.fockMatrices, m.matrix)
         THEN [s EXCEPT !.pos = m.pos, !.fockMatrices = Append(@, m.matrix),
                        !.tags.fock = Append(@, mk)]
         ELSE [s EXCEPT !.pos = m.pos, !.pc = "arma_error"]

FockCell(s, mk, f, ncells, ub) ==
    IF ~Accepted(mk.cellIndex, ncells) THEN s
    ELSE FockAccepted(s, mk, parseMatrix(f, s.pos, s.norbitals), FockRoute(s), ub)

\* if(line.find("FOCK MATRIX") != npos) { ... }
FockIf(s, line, f, ncells, ub) ==
    IF s.pc # "scan" \/ ~Find(line, "FOCK MATRIX") THEN s
    ELSE FockCell(s, MatrixMarker(Substr(line)), f, ncells, ub)

\* The flag flipped by every BETA ELECTRONS line instead of cleared.
BetaIfToggle(s, line) ==
    IF s.pc = "scan" /\ Find(line, "BETA") /\ Find(line, "ELECTRONS")
    THEN [s EXCEPT !.alpha_electrons = ~@]
    ELSE s

\* if(BETA and ELECTRONS on the line) alpha_electrons = false
BetaIf(s, line) ==
    IF s.pc = "scan" /\ Find(line, "BETA") /\ Find(line, "ELECTRONS")
    THEN [s EXCEPT !.alpha_electrons = FALSE]
    ELSE s

\* The test of the atom count left out.
AtomsGuardOff(s) == FALSE

\* if(natoms == 0) throw std::logic_error
AtomsGuard(s) == s.natoms = 0

\* The branch of the else-if chain a line takes.
BranchOf(line) ==
    IF Find(line, "DIRECT LATTICE VECTOR COMPONENTS") THEN "lattice"
    ELSE IF Find(line, "N. OF ATOMS PER CELL") THEN "natoms"
    ELSE IF Find(line, "NUMBER OF SHELLS") THEN "nshells"
    ELSE IF Find(line, "NUMBER OF AO") THEN "norbitals"
    ELSE IF Find(line, "N. OF ELECTRONS PER CELL") THEN "totalElectrons"
    ELSE IF Find(line, "CORE ELECTRONS PER CELL") THEN "coreElectrons"
    ELSE IF Find(line, "ATOM") /\ Find(line, "SHELL") THEN "atoms"
    ELSE IF Find(line, "LOCAL ATOMIC FUNCTIONS BASIS SET") THEN "basis"
    ELSE IF Find(line, "OVERLAP MATRIX") THEN "overlap"
    ELSE IF Find(line, SOC_STRING) THEN "soc"
    ELSE IF Find(line, MAGNETIC_STRING) THEN "magnetic"
    ELSE "none"

\* The else-if chain on a line just read, br its branch and n the integer
\* after the marker: the object afterwards and the line as the branch left it.
ChainOn(br, n, s, line, f, ncells, threshold, fill, ub) ==
    CASE br = "lattice" -> [s |-> parseBravaisLattice(s, f, threshold), line |-> line]
      [] br = "natoms" -> [s |-> [s EXCEPT !.natoms = n], line |-> Substr(line)]
      [] br = "nshells" -> [s |-> [s EXCEPT !.nshells = n], line |-> Substr(line)]
      [] br = "norbitals" -> [s |-> [s EXCEPT !.norbitals = n], line |-> Substr(line)]
      [] br = "totalElectrons" -> [s |-> [s EXCEPT !.totalElectrons = n], line |-> Substr(line)]
      [] br = "coreElectrons" -> [s |-> [s EXCEPT !.coreElectrons = n], line |-> Substr(line)]
      [] br = "atoms" -> [s |-> IF AtomsGuard(s) THEN [s EXCEPT !.pc = "logic_error"]
                                ELSE parseAtoms(s, f),
                          line |-> line]
      [] br = "basis" -> [s |-> parseAtomicBasis(s, f), line |-> line]
      [] br = "overlap" -> [s |-> OverlapBranch(s, line, f, ncells, fill, ub),
                            line |-> Substr(line)]
      [] br = "soc" -> [s |-> [s EXCEPT !.SOC_FLAG = TRUE], line |-> line]
      [] br = "magnetic" -> [s |-> [s EXCEPT !.MAGNETIC_FLAG = TRUE], line |-> line]
      [] OTHER -> [s |-> s, line |-> line]

Chain(s, line, f, ncells, threshold, fill, ub) ==
    ChainOn(BranchOf(line), FirstInt(Substr(line).toks), s, line, f, ncells, threshold, fill, ub)

\* The two ifs that follow the chain.
AfterChain(c, f, ncells, ub) == FockIf(BetaIf(c.s, c.line), c.line, f, ncells, ub)

\* One turn of the while loop of parseContent, the line already read.
Iteration(s, line, f, ncells, threshold, fill, ub) ==
    AfterChain(Chain(s, line, f, ncells, threshold, fill, ub), f, ncells, ub)

\* ------------------------------------------------------------------ mapContent
spinUpBlock == <<<<1, 0>>, <<0, 0>>>>
spinDownBlock == <<<<0, 0>>, <<0, 1>>>>
Eye2 == <<<<1, 0>>, <<0, 1>>>>

\* arma::kron(A, P) for a 2 x 2 matrix P.
Kron(A, P) ==
    [r \in 1..(2 * Side(A)) |-> [c \in 1..(2 * Side(A)) |->
        A[(r + 1) \div 2][(c + 1) \div 2] * P[2 - (r % 2)][2 - (c % 2)]]]

MatAdd(A, B) == [r \in 1..Side(A) |-> [c \in 1..Side(A) |-> A[r][c] + B[r][c]]]

\* systemInfo.filling *= 2; systemInfo.norbitals *= 2
Doubled(info) ==
    [info EXCEPT !.filling_x2 = 2 * @,
                 !.norbitals = [i \in 1..Len(@) |-> 2 * @[i]]]

\* Both spins projected on the spin-up block.
TotalFockUpOnly(A, B) == MatAdd(Kron(A, spinUpBlock), Kron(B, spinUpBlock))

\* kron(alpha, spinUpBlock) + kron(beta, spinDownBlock)
TotalFock(A, B) == MatAdd(Kron(A, spinUpBlock), Kron(B, spinDownBlock))

RECURSIVE MagneticLoop(_, _, _)
\* The loop over the alpha slices; acc carries fockMatrices, the new overlap
\* cube and how the loop ended.
MagneticLoop(s, i, acc) ==
    IF i > Len(s.alphaMatrices) \/ acc.pc # "scan" THEN acc
    ELSE IF i > Len(s.betaMatrices) \/ i > Len(s.overlapMatrices)
         THEN [acc EXCEPT !.pc = "undefined"]
    ELSE IF Side(s.alphaMatrices[i]) # Side(s.betaMatrices[i])
            \/ ~JoinOk(acc.fock, Kron(s.alphaMatrices[i], spinUpBlock))
         THEN [acc EXCEPT !.pc = "arma_error"]
    ELSE MagneticLoop(s, i + 1,
            [acc EXCEPT !.fock = Append(@, TotalFock(s.alphaMatrices[i], s.betaMatrices[i])),
                        !.overlap = Append(@, Kron(s.overlapMatrices[i], Eye2))])

\* The spin-orbit branch taken whatever the flags.
SpinModeAlwaysSoc(s) == "soc"

\* Which of the three branches mapContent takes.
SpinMode(s) == IF s.SOC_FLAG THEN "soc" ELSE IF s.MAGNETIC_FLAG THEN "magnetic" ELSE "none"

\* The record before the spin branches.  The filling is kept as twice its
\* value (totalElectrons/2. may be a half).
BaseInfo(s) ==
    [ndim |-> s.ndim, bravaisLattice |-> s.bravaisLattice,
     motif |-> s.motif, filling_x2 |-> s.totalElectrons,
     bravaisVectors |-> s.bravaisVectors, overlap |-> s.overlapMatrices,
     norbitals |-> s.orbitalsPerSpecies, hamiltonian |-> <<>>]

\* The magnetic branch, mag the outcome of its loop.
MagneticInfo(s, base, mag) ==
    IF mag.pc # "scan"
    THEN [s |-> [s EXCEPT !.pc = mag.pc, !.fockMatrices = mag.fock], info |-> base]
    ELSE [s |-> [s EXCEPT !.pc = "done", !.fockMatrices = mag.fock],
          info |-> [Doubled(base) EXCEPT !.overlap = mag.overlap,
                                         !.hamiltonian = mag.fock]]

MapMode(s, base, mode) ==
    IF mode = "soc"
    THEN [s |-> [s EXCEPT !.pc = "done"],
          info |-> [Doubled(base) EXCEPT !.hamiltonian = s.fockMatrices]]
    ELSE IF mode = "magnetic"
    THEN MagneticInfo(s, base,
             MagneticLoop(s, 1, [fock |-> s.fockMatrices, overlap |-> <<>>, pc |-> "scan"]))
    ELSE [s |-> [s EXCEPT !.pc = "done"],
          info |-> [base EXCEPT !.hamiltonian = s.fockMatrices]]

\* mapContent: the object afterwards and the record it fills.
mapContent(s) == MapMode(s, BaseInfo(s), SpinMode(s))

\* ------------------------------------------------------------------ state
VARIABLES
    file, ncells, threshold, fill,   \* the .outp text, the arguments, what rowvec(3) holds
    given,                           \* what the text was written from
    pos, pc,                         \* m_file's position; where the constructor stands
    natoms, nshells, norbitals, totalElectrons, coreElectrons,
    ndim, bravaisLattice, motif, shellsPerSpecies, nspecies,
    orbitalsPerSpecies, shellTypesPerSpecies, gaussianCoefficients,
    overlapMatrices, fockMatrices, alphaMatrices, betaMatrices, bravaisVectors,
    SOC_FLAG, MAGNETIC_FLAG, alpha_electrons,
    tags,                            \* the marker each stack entry came from
    systemInfo

inputs == <<file, ncells, threshold, fill, given>>
vars == <<file, ncells, threshold, fill, given, pos, pc,
          natoms, nshells, norbitals, totalElectrons, coreElectrons,
          ndim, bravaisLattice, motif, shellsPerSpecies, nspecies,
          orbitalsPerSpecies, shellTypesPerSpecies, gaussianCoefficients,
          overlapMatrices, fockMatrices, alphaMatrices, betaMatrices, bravaisVectors,
          SOC_FLAG, MAGNETIC_FLAG, alpha_electrons, tags, systemInfo>>

\* The object as one record, for the handlers above.
Self ==
    [pos |-> pos, pc |-> pc, natoms |-> natoms, nshells |-> nshells,
     norbitals |-> norbitals, totalElectrons |-> totalElectrons,
     coreElectrons |-> coreElectrons, ndim |-> ndim, bravaisLattice |-> bravaisLattice,
     motif |-> motif, shellsPerSpecies |-> shellsPerSpecies, nspecies |-> nspecies,
     orbitalsPerSpecies |-> orbitalsPerSpecies,
     shellTypesPerSpecies |-> shellTypesPerSpecies,
     gaussianCoefficients |-> gaussianCoefficients,
     overlapMatrices |-> overlapMatrices, fockMatrices |-> fockMatrices,
     alphaMatrices |-> alphaMatrices, betaMatrices |-> betaMatrices,
     bravaisVectors |-> bravaisVectors, SOC_FLAG |-> SOC_FLAG,
     MAGNETIC_FLAG |-> MAGNETIC_FLAG, alpha_electrons |-> alpha_electrons,
     tags |-> tags]

Commit(s) ==
    /\ pos' = s.pos /\ pc' = s.pc /\ natoms' = s.natoms /\ nshells' = s.nshells
    /\ norbitals' = s.norbitals /\ totalElectrons' = s.totalElectrons
    /\ coreElectrons' = s.coreElectrons /\ ndim' = s.ndim
    /\ bravaisLattice' = s.bravaisLattice /\ motif' = s.motif
    /\ shellsPerSpecies' = s.shellsPerSpecies /\ nspecies' = s.nspecies
    /\ orbitalsPerSpecies' = s.orbitalsPerSpecies
    /\ shellTypesPerSpecies' = s.shellTypesPerSpecies
    /\ gaussianCoefficients' = s.gaussianCoefficients
    /\ overlapMatrices' = s.overlapMatrices /\ fockMatrices' = s.fockMatrices
    /\ alphaMatrices' = s.alphaMatrices /\ betaMatrices' = s.betaMatrices
    /\ bravaisVectors' = s.bravaisVectors /\ SOC_FLAG' = s.SOC_FLAG
    /\ MAGNETIC_FLAG' = s.MAGNETIC_FLAG /\ alpha_electrons' = s.alpha_electrons
    /\ tags' = s.tags

NoInfo == [ndim |-> 0, bravaisLattice |-> <<>>, motif |-> <<>>, filling_x2 |-> 0,
           bravaisVectors |-> <<>>, overlap |-> <<>>, norbitals |-> <<>>,
           hamiltonian |-> <<>>]

\* The outcomes of flowing off the end of parseMatrix.
UBOutcomes == {"partial", "undefined"}

\* ------------------------------------------------------------------ input text
MaxAtoms == 5
MaxBasisAtoms == 3
MaxSections == 3
MaxCell == 2
MaxVec == 2
DriverDim == 2

Mark(phrase, toks) == Line({phrase}, toks)
CountLine(phrase, n) == Mark(phrase, <<Num(n)>>)
Stars == Line({}, <<Word("*******")>>)
LatticeMark == Mark("DIRECT LATTICE VECTOR COMPONENTS", <<Word("(ANGSTROM)")>>)
AtomsHeader == Line({"ATOM", "SHELL"}, <<Word("X(A)"), Word("Y(A)"), Word("Z(A)")>>)
BasisMark == Mark("LOCAL ATOMIC FUNCTIONS BASIS SET", <<>>)
BasisHeader == Line({"ATOM"}, <<Word("X(AU)"), Word("EXPONENT"), Word("COEF")>>)
BetaLine == Line({"BETA", "ELECTRONS"}, <<>>)
MagneticLine == Mark(MAGNETIC_STRING, <<>>)
SocLine == Mark(SOC_STRING, <<>>)
MatrixMark(phrase, cell, coef) ==
    Mark(phrase, <<Num(cell), Word("("), Num(coef[1]), Num(coef[2]), Num(coef[3])>>)
OverlapMark(cell, coef) == MatrixMark("OVERLAP MATRIX - CELL N.", cell, coef)
FockMark(cell, coef) == MatrixMark("FOCK MATRIX - CELL N.", cell, coef)

\* The dense reference matrices: entry (r, c) is a*r + b*c.
RefMatrix(D, a, b) == [r \in 1..D |-> [c \in 1..D |-> a * r + b * c]]

RECURSIVE Compositions(_)
\* The ways to cut n columns into consecutive blocks: the block widths.
Compositions(n) ==
    IF n = 0 THEN {<<>>}
    ELSE UNION {{<<k>> \o w : w \in Compositions(n - k)} : k \in 1..n}

RECURSIVE SeqsUpTo(_, _)
\* The sequences over S of length at most n.
SeqsUpTo(S, n) ==
    IF n = 0 THEN {<<>>}
    ELSE LET shorter == SeqsUpTo(S, n - 1)
         IN shorter \cup {Append(q, x) : q \in {w \in shorter : Len(w) = n - 1}, x \in S}

RECURSIVE Concat(_)
Concat(seqs) == IF seqs = <<>> THEN <<>> ELSE Head(seqs) \o Concat(Tail(seqs))

Given(family) ==
    [family |-> family, M |-> <<>>, widths |-> <<>>, complete |-> TRUE, vecs |-> <<>>,
     labels |-> <<>>, counts |-> <<>>, running |-> TRUE, prefix |-> <<>>,
     sections |-> <<>>]

Input(f, nc, th, fl, g) ==
    [file |-> f, ncells |-> nc, threshold |-> th, fill |-> fl, given |-> g]

Thresholds == {100, 250}
ZeroFill == <<0, 0, 0>>
\* arma::rowvec(3) is zero-filled by Armadillo 10.5 and later; older versions
\* leave the memory as it was.
Fills == {ZeroFill, <<7, 7, 7>>}

\* One matrix: NUMBER OF AO, an overlap marker for cell 1, and the blocked
\* text of a reference matrix cut after any number of lines.
MatrixInputs ==
    UNION {UNION {UNION {
        LET M == RefMatrix(D, ab[1], ab[2])
            text == Blocks(M, ws, 1)
        IN {Input(<<CountLine("NUMBER OF AO", D), OverlapMark(1, <<0, 0, 0>>)>>
                      \o SubSeq(text, 1, cut),
                  1, 100, ZeroFill,
                  [Given("matrix") EXCEPT !.M = M, !.widths = ws,
                                          !.complete = (cut = Len(text))])
            : cut \in 0..Len(text)}
        : ws \in Compositions(D)}
        : ab \in (0..MaxCoef) \X (0..MaxCoef)}
        : D \in 1..MaxDim}

\* Matrix texts that are not what CRYSTAL prints: a data line with no line of
\* column indices before it, a data line with more values than columns
\* declared, a row index and a column index beyond the dimension.
MalformedBlocks(v) ==
    {<<NumLine(<<1, v, v>>)>>,
     <<EmptyLine, NumLine(<<1>>), NumLine(<<1, v, v>>)>>,
     <<EmptyLine, NumLine(<<1, 2>>), NumLine(<<DriverDim + 1, v, v>>)>>,
     <<EmptyLine, NumLine(<<1, DriverDim + 1>>), NumLine(<<1, v, v>>)>>}

\* A matrix section with a malformed block, and a well-formed one that comes
\* before NUMBER OF AO.
MalformedInputs ==
    {Input(<<CountLine("NUMBER OF AO", DriverDim), OverlapMark(1, <<0, 0, 0>>)>> \o b,
           1, 100, ZeroFill, Given("malformed"))
        : b \in UNION {MalformedBlocks(v) : v \in 0..MaxCoef}}
    \cup
    {Input(<<OverlapMark(1, <<0, 0, 0>>)>>
               \o Blocks(RefMatrix(DriverDim, v, v), <<DriverDim>>, 1)
               \o <<CountLine("NUMBER OF AO", DriverDim)>>,
           1, 100, ZeroFill, Given("malformed"))
        : v \in 0..MaxCoef}

\* The lattice vectors a file may list: short ones, and long ones of norm
\* 100 k (the placeholders of the directions without periodicity).
Vecs == {<<k, 0, 0>> : k \in 1..MaxVec} \cup {<<0, 60 * k, 80 * k>> : k \in 1..(MaxVec + 1)}

LatticeInputs ==
    {Input(<<LatticeMark>> \o [i \in 1..3 |-> NumLine(vs[i])],
           1, th, ZeroFill, [Given("lattice") EXCEPT !.vecs = vs])
        : vs \in [1..3 -> Vecs], th \in Thresholds}

\* A lattice section cut short: the marker and fewer than three vector
\* lines, the last line of the text with or without its newline.
ShortText(vs, nl) ==
    IF nl THEN <<LatticeMark>> \o [i \in 1..Len(vs) |-> NumLine(vs[i])]
    ELSE IF vs = <<>> THEN <<NoNewline(LatticeMark)>>
    ELSE <<LatticeMark>>
         \o [i \in 1..Len(vs) |->
                IF i = Len(vs) THEN NoNewline(NumLine(vs[i])) ELSE NumLine(vs[i])]

ShortLatticeInputs ==
    {Input(ShortText(vs, nl), 1, 100, ZeroFill, [Given("short") EXCEPT !.vecs = vs])
        : vs \in SeqsUpTo(Vecs, 2), nl \in BOOLEAN}

Labels == {"C", "H", "O"}
ShellsOf(label) == IF label = "H" THEN 1 ELSE 2

\* The record of atom i in the table of atoms.
AtomLine(i, label) ==
    Line({}, <<Num(i), Num(6), Word(label), Num(ShellsOf(label)),
               Num(i), Num(2 * i), Num(3 * i)>>)

AtomsText(labels) ==
    <<AtomsHeader, Stars>> \o [i \in 1..Len(labels) |-> AtomLine(i, labels[i])]

\* The table of atoms after the atom count, and (for the guard of the
\* ATOM/SHELL branch) before it or without it.
AtomsInputs ==
    {Input(<<CountLine("N. OF ATOMS PER CELL", Len(ls))>> \o AtomsText(ls),
           1, 100, ZeroFill, [Given("atoms") EXCEPT !.labels = ls])
        : ls \in SeqsUpTo(Labels, MaxAtoms) \ {<<>>}}
    \cup
    {Input(pre \o AtomsText(ls) \o <<CountLine("N. OF ATOMS PER CELL", Len(ls))>>,
           1, 100, ZeroFill, [Given("early") EXCEPT !.labels = ls])
        : ls \in SeqsUpTo(Labels, 2),
          pre \in {<<>>, <<CountLine("NUMBER OF SHELLS", 3)>>,
                   <<CountLine("N. OF ATOMS PER CELL", 0)>>}}

\* The atom count and the table of atoms, then a second table of as many
\* atoms under a header of its own.
SecondTableInputs ==
    {Input(<<CountLine("N. OF ATOMS PER CELL", Len(ls))>> \o AtomsText(ls) \o AtomsText(ls2),
           1, 100, ZeroFill, [Given("again") EXCEPT !.labels = ls])
        : ls \in SeqsUpTo(Labels, 2) \ {<<>>}, ls2 \in SeqsUpTo(Labels, 2) \ {<<>>}}

BasisLabels == {"C", "H"}
Counts == {4, 10}
CoefRow == NumLine(<<5, 1, 0, 0>>)

\* The shells CRYSTAL lists for the first atom of a species with q orbitals
\* that follow orbital number base: the header of a shell names its last
\* orbital, after "first -" when the shell holds more than one.
ShellsText(label, base, q) ==
    IF ShellsOf(label) = 1
    THEN <<Line({}, <<Num(base + 1), Word("-"), Num(base + q), Word("SP")>>), CoefRow>>
    ELSE <<Line({}, <<Num(base + 1), Word("S")>>), CoefRow, CoefRow,
           Line({}, <<Num(base + 2), Word("-"), Num(base + q), Word("SP")>>), CoefRow>>

RECURSIVE BasisBlocks(_, _, _, _, _, _)
\* The blocks of atoms i.. of the basis section.  perAtom is the number of
\* orbitals of all atoms before i, perSpecies that of the distinct species
\* before i; running says which of the two the shell headers count from.
BasisBlocks(labels, counts, running, i, perAtom, perSpecies) ==
    IF i > Len(labels) THEN <<>>
    ELSE LET label == labels[i]
             isNew == \A j \in 1..(i - 1) : labels[j] # label
             q == counts[label]
             head == Line({}, <<Num(i), Word(label), Num(i), Num(2 * i), Num(3 * i)>>)
             base == IF running THEN perAtom ELSE perSpecies
         IN <<head>>
            \o (IF isNew THEN ShellsText(label, base, q) ELSE <<>>)
            \o BasisBlocks(labels, counts, running, i + 1, perAtom + q,
                           IF isNew THEN perSpecies + q ELSE perSpecies)

BasisText(labels, counts, running) ==
    <<BasisMark, Stars, BasisHeader, Stars>>
    \o BasisBlocks(labels, counts, running, 1, 0, 0)
    \o <<CountLine("N. OF ELECTRONS PER CELL", 12)>>

\* Atom count, table of atoms and basis section of the same atoms.  With
\* running the shell headers count over all atoms, as CRYSTAL prints them;
\* without, over the distinct species only.
BasisInputs ==
    {Input(<<CountLine("N. OF ATOMS PER CELL", Len(ls))>> \o AtomsText(ls)
               \o BasisText(ls, cs, run),
           1, 100, ZeroFill,
           [Given("basis") EXCEPT !.labels = ls, !.counts = cs, !.running = run])
        : ls \in SeqsUpTo(BasisLabels, MaxBasisAtoms) \ {<<>>},
          cs \in [BasisLabels -> Counts], run \in BOOLEAN}

\* The same, the basis section printed twice in the text.
RepeatedBasisInputs ==
    {Input(<<CountLine("N. OF ATOMS PER CELL", Len(ls))>> \o AtomsText(ls)
               \o BasisText(ls, cs, TRUE) \o BasisText(ls, cs, TRUE),
           1, 100, ZeroFill,
           [Given("twice") EXCEPT !.labels = ls, !.counts = cs])
        : ls \in SeqsUpTo(BasisLabels, MaxBasisAtoms) \ {<<>>},
          cs \in [BasisLabels -> Counts]}

\* ------------------------------------------------------------------ sections
Coef(cell) == <<cell - 1, cell \div 2, 0>>
Widths(D, split2) == IF split2 /\ D > 1 THEN <<1, D - 1>> ELSE <<D>>

\* A section descriptor and its text.
Section(kind, cell, b) ==
    [kind |-> kind, cell |-> cell, M |-> RefMatrix(DriverDim, cell, b)]
Flag(kind) == [kind |-> kind, cell |-> 0, M |-> <<>>]

SectionText(sec) ==
    CASE sec.kind = "O" -> <<OverlapMark(sec.cell, Coef(sec.cell))>>
                           \o Blocks(sec.M, Widths(DriverDim, FALSE), 1)
      [] sec.kind = "F" -> <<FockMark(sec.cell, Coef(sec.cell))>>
                           \o Blocks(sec.M, Widths(DriverDim, TRUE), 1)
      [] sec.kind = "BETA" -> <<BetaLine>>
      [] sec.kind = "MAG" -> <<MagneticLine>>
      [] sec.kind = "SOC" -> <<SocLine>>
      [] sec.kind = "NELEC" -> <<CountLine("N. OF ELECTRONS PER CELL", 4 + sec.cell)>>
      [] sec.kind = "CORE" -> <<CountLine("CORE ELECTRONS PER CELL", 2)>>
      [] sec.kind = "NSHELLS" -> <<CountLine("NUMBER OF SHELLS", 3)>>

SectionsText(secs) == Concat([i \in 1..Len(secs) |-> SectionText(secs[i])])

\* Sections in any order: each matrix section of cell c at place i of the
\* file prints the reference matrix (c, i).
Templates ==
    {[kind |-> k, cell |-> c] : k \in {"O", "F"}, c \in {1, MaxCell}}
    \cup {[kind |-> k, cell |-> 0] : k \in {"BETA", "MAG", "SOC"}}

Place(ts) ==
    [i \in 1..Len(ts) |->
        IF ts[i].kind \in {"O", "F"} THEN Section(ts[i].kind, ts[i].cell, i)
        ELSE [Flag(ts[i].kind) EXCEPT !.cell = ts[i].cell]]

FreePrefix == <<CountLine("NUMBER OF AO", DriverDim)>>

FreeInputs ==
    {Input(FreePrefix \o SectionsText(Place(ts)),
           nc, 100, ZeroFill, [Given("free") EXCEPT !.sections = Place(ts),
                                                    !.prefix = FreePrefix])
        : ts \in SeqsUpTo(Templates, MaxSections), nc \in {1, MaxCell}}

\* The orders in which a file may list cells: no cell twice.
Orders == {o \in SeqsUpTo(1..MaxCell, MaxCell) : \A i, j \in 1..Len(o) : i # j => o[i] # o[j]}
Reverse(o) == [i \in 1..Len(o) |-> o[Len(o) + 1 - i]]

\* A file in CRYSTAL's order: lattice, counts, flags, the overlap matrices,
\* the Fock matrices and, after BETA ELECTRONS, those of the other spin.
CanonicalSections(flags, oc, fc, withBeta, bc) ==
    [i \in 1..Len(flags) |-> Flag(flags[i])]
    \o <<Flag("NSHELLS"), Flag("NELEC"), Flag("CORE")>>
    \o [i \in 1..Len(oc) |-> Section("O", oc[i], 0)]
    \o [i \in 1..Len(fc) |-> Section("F", fc[i], 1)]
    \o (IF withBeta THEN <<Flag("BETA")>> \o [i \in 1..Len(bc) |-> Section("F", bc[i], 2)]
        ELSE <<>>)

CanonicalLattice == <<<<1, 0, 0>>, <<0, 2, 0>>, <<0, 180, 240>>>>

CanonicalPrefix ==
    <<LatticeMark>> \o [i \in 1..3 |-> NumLine(CanonicalLattice[i])]
    \o <<CountLine("NUMBER OF AO", DriverDim)>>

CanonicalInput(secs, nc, fl) ==
    Input(CanonicalPrefix \o SectionsText(secs),
          nc, 100, fl, [Given("canonical") EXCEPT !.sections = secs,
                                                  !.vecs = CanonicalLattice,
                                                  !.prefix = CanonicalPrefix])

CanonicalInputs ==
    UNION {{CanonicalInput(CanonicalSections(flags, oc, fc, FALSE, <<>>), nc, fl)
               : fc \in {oc, Reverse(oc)}}
        : flags \in {<<>>, <<"SOC">>}, oc \in Orders,
          nc \in 1..MaxCell, fl \in Fills}
    \cup
    UNION {{CanonicalInput(CanonicalSections(flags, oc, fcbc[1], TRUE, fcbc[2]), nc, fl)
               : fcbc \in {<<oc, oc>>, <<oc, Reverse(oc)>>, <<Reverse(oc), Reverse(oc)>>,
                           <<oc, <<>>>>}}
        : flags \in {<<"MAG">>, <<"MAG", "SOC">>}, oc \in Orders,
          nc \in 1..MaxCell, fl \in Fills}

Inputs ==
    MatrixInputs \cup LatticeInputs \cup ShortLatticeInputs \cup AtomsInputs \cup BasisInputs
    \cup RepeatedBasisInputs \cup SecondTableInputs \cup MalformedInputs
    \cup FreeInputs \cup CanonicalInputs

\* The object before parseContent runs: every member at the default value of
\* its declaration.
Constructed ==
    [pos |-> 0, pc |-> "scan", natoms |-> 0, nshells |-> 0, norbitals |-> 0,
     totalElectrons |-> 0, coreElectrons |-> 0, ndim |-> 0, bravaisLattice |-> <<>>,
     motif |-> <<>>, shellsPerSpecies |-> <<>>, nspecies |-> 0,
     orbitalsPerSpecies |-> <<>>, shellTypesPerSpecies |-> <<>>,
     gaussianCoefficients |-> <<>>, overlapMatrices |-> <<>>, fockMatrices |-> <<>>,
     alphaMatrices |-> <<>>, betaMatrices |-> <<>>, bravaisVectors |-> <<>>,
     SOC_FLAG |-> FALSE, MAGNETIC_FLAG |-> FALSE, alpha_electrons |-> TRUE,
     tags |-> [vectors |-> <<>>, overlap |-> <<>>, fock |-> <<>>,
               alpha |-> <<>>, beta |-> <<>>]]

\* ------------------------------------------------------------------ the run
\* The object as constructed, before parseContent.
Init ==
    /\ \E in \in Inputs :
          /\ file = in.file /\ ncells = in.ncells /\ threshold = in.threshold
          /\ fill = in.fill /\ given = in.given
    /\ pos = Constructed.pos /\ pc = Constructed.pc /\ natoms = Constructed.natoms
    /\ nshells = Constructed.nshells /\ norbitals = Constructed.norbitals
    /\ totalElectrons = Constructed.totalElectrons
    /\ coreElectrons = Constructed.coreElectrons /\ ndim = Constructed.ndim
    /\ bravaisLattice = Constructed.bravaisLattice /\ motif = Constructed.motif
    /\ shellsPerSpecies = Constructed.shellsPerSpecies
    /\ nspecies = Constructed.nspecies
    /\ orbitalsPerSpecies = Constructed.orbitalsPerSpecies
    /\ shellTypesPerSpecies = Constructed.shellTypesPerSpecies
    /\ gaussianCoefficients = Constructed.gaussianCoefficients
    /\ overlapMatrices = Constructed.overlapMatrices
    /\ fockMatrices = Constructed.fockMatrices
    /\ alphaMatrices = Constructed.alphaMatrices
    /\ betaMatrices = Constructed.betaMatrices
    /\ bravaisVectors = Constructed.bravaisVectors
    /\ SOC_FLAG = Constructed.SOC_FLAG
    /\ MAGNETIC_FLAG = Constructed.MAGNETIC_FLAG
    /\ alpha_electrons = Constructed.alpha_electrons /\ tags = Constructed.tags
    /\ systemInfo = NoInfo

RECURSIVE parseContent(_, _, _, _, _, _)
\* The while loop of parseContent run to the end of text f.
parseContent(s, f, nc, th, fl, ub) ==
    IF s.pc # "scan" \/ ~HasLine(f, s.pos) THEN s
    ELSE parseContent(Iteration([s EXCEPT !.pos = s.pos + 1], f[s.pos + 1],
                                f, nc, th, fl, ub),
                      f, nc, th, fl, ub)

\* The line the while loop of parseContent reads next.
NextLine == file[pos + 1]

\* One turn of the while loop of parseContent: the line is read and run
\* through the else-if chain and the two ifs after it.
Turn ==
    /\ \E ub \in UBOutcomes :
          Commit(Iteration([Self EXCEPT !.pos = pos + 1], NextLine,
                           file, ncells, threshold, fill, ub))
    /\ UNCHANGED <<inputs, systemInfo>>

\* The loop is running and the next line takes branch br of the chain.
Reads(br) == pc = "scan" /\ HasLine(file, pos) /\ BranchOf(NextLine) = br

DoLattice ==
    /\ Reads("lattice")
    /\ Turn
DoNatoms ==
    /\ Reads("natoms")
    /\ Turn
DoNshells ==
    /\ Reads("nshells")
    /\ Turn
DoNorbitals ==
    /\ Reads("norbitals")
    /\ Turn
DoTotalElectrons ==
    /\ Reads("totalElectrons")
    /\ Turn
DoCoreElectrons ==
    /\ Reads("coreElectrons")
    /\ Turn
DoAtoms ==
    /\ Reads("atoms")
    /\ Turn
DoBasis ==
    /\ Reads("basis")
    /\ Turn
DoOverlap ==
    /\ Reads("overlap")
    /\ Turn
DoSoc ==
    /\ Reads("soc")
    /\ Turn
DoMagnetic ==
    /\ Reads("magnetic")
    /\ Turn
\* No branch of the chain: the line may still hold BETA ELECTRONS or a Fock
\* marker.
DoBeta ==
    /\ Reads("none") /\ Find(NextLine, "BETA") /\ Find(NextLine, "ELECTRONS")
    /\ Turn
DoFock ==
    /\ Reads("none") /\ Find(NextLine, "FOCK MATRIX")
    /\ Turn
\* A line with nothing the scan looks for.
DoSkip ==
    /\ Reads("none") /\ ~Find(NextLine, "FOCK MATRIX")
    /\ ~(Find(NextLine, "BETA") /\ Find(NextLine, "ELECTRONS"))
    /\ Turn

Emit(r) == Commit(r.s) /\ systemInfo' = r.info

\* getline fails at the end of the stream, parseContent returns and the
\* constructor calls mapContent.
DoMapContent ==
    /\ pc = "scan" /\ ~HasLine(file, pos)
    /\ Emit(mapContent(Self))
    /\ UNCHANGED inputs

Next ==
    \/ DoLattice \/ DoNatoms \/ DoNshells \/ DoNorbitals \/ DoTotalElectrons
    \/ DoCoreElectrons \/ DoAtoms \/ DoBasis \/ DoOverlap \/ DoSoc \/ DoMagnetic
    \/ DoBeta \/ DoFock \/ DoSkip \/ DoMapContent

Spec == Init /\ [][Next]_vars

-----------------------------------------------------------------------------
(* Properties.                                                             *)

\* The matrix section of a "matrix" text has been handed to parseMatrix.
MatrixParsed == given.family = "matrix" /\ (pos >= 2 \/ pc = "undefined")

\* C1: parsing the blocked text of a D x D matrix M, printed under any
\* partition of the columns 1..D into consecutive blocks with the rows 1..D
\* listed in each block, returns exactly M: the OVERLAP branch appends a
\* D x D matrix equal to M and the scan goes on.
C1_RoundTrip ==
    (MatrixParsed /\ given.complete)
        => /\ pc \in {"scan", "done"}
           /\ overlapMatrices = <<given.M>>
           /\ pos = Len(file)

\* A full-size matrix that is not symmetric, printed in two or more column
\* blocks, has been parsed back.
C1_Witness ==
    /\ MatrixParsed /\ given.complete
    /\ Side(given.M) = MaxDim
    /\ Len(given.widths) >= 2
    /\ given.M[1][MaxDim] # given.M[MaxDim][1]
    /\ overlapMatrices = <<given.M>>

\* The lattice vectors of a "lattice" text have been read and filtered.
LatticeParsed == given.family = "lattice" /\ pos >= 4

\* The vectors of vecs whose norm does not exceed th, in their order.
WithinThreshold(vecs, th) == SelectSeq(vecs, LAMBDA v : ~NormExceeds(v, th))

\* C2: after the lattice is parsed, the retained vectors are exactly the
\* parsed vectors whose norm does not exceed the threshold, in parse order,
\* and ndim is their number.
C2_LatticeExtraction ==
    LatticeParsed
        => /\ bravaisLattice = WithinThreshold(given.vecs, threshold)
           /\ ndim = Len(WithinThreshold(given.vecs, threshold))

\* The explicit errors parseContent can raise.
ExplicitErrors == {"logic_error", "arma_error"}

\* C3: when the text ends before parseMatrix has read the entry at
\* (D-1, D-1), the parse raises an explicit error and no partly filled
\* matrix is appended to a stack.
C3_TruncatedMatrix ==
    (MatrixParsed /\ ~given.complete)
        => /\ pc \in ExplicitErrors
           /\ overlapMatrices = <<>>

\* The scan of a text made of sections has consumed every line and
\* mapContent has not run yet.
SectionsScanned ==
    /\ given.family \in {"free", "canonical"}
    /\ pc = "scan"
    /\ ~HasLine(file, pos)

\* A section of the text whose cell index exceeds the limit nc.
Rejected(sec, nc) == sec.kind \in {"O", "F"} /\ sec.cell > nc

\* The text of the same file with the rejected sections absent.
WithoutRejected ==
    given.prefix
    \o SectionsText(SelectSeq(given.sections, LAMBDA sec : ~Rejected(sec, ncells)))

\* The matrix stacks and the translation vectors of object s.
Stacks(s) ==
    <<s.overlapMatrices, s.fockMatrices, s.alphaMatrices, s.betaMatrices,
      s.bravaisVectors>>

\* C4: with cell limit ncells, sections whose cell index exceeds ncells add
\* nothing to any stack, and every section after them is recognised and parsed
\* as if they were absent: at the end of the scan the stacks are those the
\* scan of the same text without the rejected sections builds.
C4_CellLimit ==
    SectionsScanned
        => Stacks(Self) = Stacks(parseContent(Constructed, WithoutRejected,
                                              ncells, threshold, fill, "partial"))

\* Two rejected sections come first and an accepted overlap section after
\* them has been stored.
C4_Witness ==
    /\ SectionsScanned
    /\ Len(given.sections) = 3
    /\ Rejected(given.sections[1], ncells)
    /\ Rejected(given.sections[2], ncells)
    /\ given.sections[3].kind = "O"
    /\ overlapMatrices = <<given.sections[3].M>>
    /\ fockMatrices = <<>>

\* The atom table of an "atoms" text has been read.
AtomsParsed == given.family = "atoms" /\ pc = "scan" /\ pos >= 3 + Len(given.labels)

\* The first place of label l in labels.
FirstSeen(labels, l) == CHOOSE i \in 1..Len(labels) :
    labels[i] = l /\ \A j \in 1..(i - 1) : labels[j] # l

\* The number of distinct labels that come before the first l.
SeenBefore(labels, l) ==
    Cardinality({labels[j] : j \in 1..(FirstSeen(labels, l) - 1)})

\* C5: after the atom table is parsed, every atom carries the index of its
\* species in order of first appearance, counted from 0, and atoms of one
\* species share one index; labels [C, H, C, O, H] give C = 0, H = 1, O = 2.
C5_FirstSeenOrder ==
    AtomsParsed
        => /\ Len(motif) = Len(given.labels)
           /\ \A i \in 1..Len(given.labels) :
                 motif[i][4] = SeenBefore(given.labels, given.labels[i])
           /\ nspecies = Cardinality({given.labels[i] : i \in 1..Len(given.labels)})
           /\ (given.labels = <<"C", "H", "C", "O", "H">>
                 => [i \in 1..5 |-> motif[i][4]] = <<0, 1, 0, 2, 1>>)

\* The table with labels [C, H, C, O, H] has been read.
C5_Witness ==
    /\ AtomsParsed
    /\ given.labels = <<"C", "H", "C", "O", "H">>
    /\ [i \in 1..5 |-> motif[i][4]] = <<0, 1, 0, 2, 1>>
    /\ nspecies = 3

\* The basis section of a "basis" text has been read.
BasisParsed ==
    /\ given.family = "basis"
    /\ pos >= Len(file) - 1

RECURSIVE SumOver(_, _, _)
\* q(1) + ... + q(n)
SumOver(Q(_), n, acc) == IF n = 0 THEN acc ELSE SumOver(Q, n - 1, acc + Q(n))

\* Atom i is the first of its species.
IsFirst(labels, i) == FirstSeen(labels, labels[i]) = i

\* The cumulative total the shell headers of atom i report: the orbitals of
\* atom i on top of those of all atoms before it (running) or of the
\* distinct species before it.
Reported(i) ==
    LET Q(j) == IF given.running \/ IsFirst(given.labels, j)
                THEN given.counts[given.labels[j]] ELSE 0
    IN SumOver(Q, i, 0)

\* The running total over the atoms before atom i: each adds the count
\* recorded for its species.
RunningTotal(i) ==
    LET Q(j) == orbitalsPerSpecies[SeenBefore(given.labels, given.labels[j]) + 1]
    IN SumOver(Q, i - 1, 0)

\* The count recorded for every new species is the reported cumulative total
\* less the running total over the atoms before.
ByDifference ==
    /\ pc \in {"scan", "done"}
    /\ Len(orbitalsPerSpecies)
         = Cardinality({given.labels[i] : i \in 1..Len(given.labels)})
    /\ \A i \in 1..Len(given.labels) :
          IsFirst(given.labels, i)
            => orbitalsPerSpecies[SeenBefore(given.labels, given.labels[i]) + 1]
                 = Reported(i) - RunningTotal(i)

\* Three atoms of two species, the second a repeat of the first, of 10 and
\* 4 orbitals.
ThreeAtoms ==
    /\ Len(given.labels) = 3
    /\ given.labels[1] = given.labels[2]
    /\ given.labels[3] # given.labels[1]
    /\ given.counts[given.labels[1]] = 10
    /\ given.counts[given.labels[3]] = 4

\* C6 as stated: the count recorded for a new species is the cumulative total
\* reported for its atom less the running total over the atoms before it, an
\* atom of a species seen before adding its species' count to that total;
\* three atoms of two species (the second a repeat of the first) reporting
\* the totals 10 and 14 give the counts [10, 4].
C6_Original ==
    BasisParsed
        => /\ ByDifference
           /\ (ThreeAtoms /\ ~given.running /\ Reported(3) = 14
                 => orbitalsPerSpecies = <<10, 4>>)

\* C6: the count recorded for a new species is the cumulative total reported
\* for its atom less the running total over the atoms before it, an atom of a
\* species seen before adding its species' count to that total; three atoms
\* of two species (the second a repeat of the first) reporting the totals 10
\* and 24 give the counts [10, 4], and reporting 10 and 14 give [10, -6].
C6_ByDifference ==
    BasisParsed
        => /\ ByDifference
           /\ (ThreeAtoms /\ given.running /\ Reported(3) = 24
                 => orbitalsPerSpecies = <<10, 4>>)
           /\ (ThreeAtoms /\ ~given.running /\ Reported(3) = 14
                 => orbitalsPerSpecies = <<10, -6>>)

\* The three atoms reporting 10 and 24 have been read.
C6_Witness ==
    /\ BasisParsed
    /\ ThreeAtoms /\ given.running /\ Reported(3) = 24
    /\ orbitalsPerSpecies = <<10, 4>>

\* The scan has read every line: mapContent runs next.
MapRuns == pc = "scan" /\ ~HasLine(file, pos)

\* The 2d x 2d matrix with A on the spin-up entries and B on the spin-down
\* entries: counted from 0, entry (2r, 2c) is A(r, c), entry (2r+1, 2c+1) is
\* B(r, c), and every entry that mixes the spins is 0.
BlockDiagonal(A, B) ==
    [r \in 1..(2 * Side(A)) |-> [c \in 1..(2 * Side(A)) |->
        IF r % 2 = 1 /\ c % 2 = 1 THEN A[(r + 1) \div 2][(c + 1) \div 2]
        ELSE IF r % 2 = 0 /\ c % 2 = 0 THEN B[r \div 2][c \div 2]
        ELSE 0]]

\* One alpha, one beta and one overlap matrix per cell, all of one dimension.
PerCellStacks ==
    /\ Len(alphaMatrices) = Len(betaMatrices)
    /\ Len(alphaMatrices) = Len(overlapMatrices)
    /\ \A i \in 1..Len(alphaMatrices) :
          /\ Side(alphaMatrices[i]) = Side(betaMatrices[i])
          /\ Side(alphaMatrices[i]) = Side(overlapMatrices[i])

\* The record of the magnetic assembly: one block-diagonal Hamiltonian slice
\* per cell, each overlap slice as kron(S_i, I2), the filling and every
\* orbital count doubled.
Assembled ==
    /\ pc' = "done"
    /\ systemInfo'.hamiltonian
         = [i \in 1..Len(alphaMatrices) |->
               BlockDiagonal(alphaMatrices[i], betaMatrices[i])]
    /\ systemInfo'.overlap
         = [i \in 1..Len(overlapMatrices) |->
               BlockDiagonal(overlapMatrices[i], overlapMatrices[i])]
    /\ systemInfo'.filling_x2 = 2 * totalElectrons
    /\ systemInfo'.norbitals
         = [i \in 1..Len(orbitalsPerSpecies) |-> 2 * orbitalsPerSpecies[i]]

C8_DimensionInvariant ==
    pc = "done"
        => LET side == IF SOC_FLAG \/ MAGNETIC_FLAG THEN 2 * norbitals ELSE norbitals
           IN /\ \A i \in 1..Len(systemInfo.overlap) :
                    Side(systemInfo.overlap[i]) = side
              /\ \A i \in 1..Len(systemInfo.hamiltonian) :
                    Side(systemInfo.hamiltonian[i]) = side
              /\ (SOC_FLAG \/ MAGNETIC_FLAG)
                    => /\ systemInfo.filling_x2 = 2 * totalElectrons
                       /\ systemInfo.norbitals
                            = [i \in 1..Len(orbitalsPerSpecies) |->
                                  2 * orbitalsPerSpecies[i]]

\* The cells within the limit of the sections of one kind at the places
\* lo..hi of the text.
CellsAt(kind, lo, hi) ==
    {given.sections[i].cell :
        i \in {j \in lo..hi : /\ j \in 1..Len(given.sections)
                              /\ given.sections[j].kind = kind
                              /\ given.sections[j].cell <= ncells}}

\* The place of the BETA ELECTRONS line, past the end when there is none.
BetaAt ==
    IF \E i \in 1..Len(given.sections) : given.sections[i].kind = "BETA"
    THEN CHOOSE i \in 1..Len(given.sections) : given.sections[i].kind = "BETA"
    ELSE Len(given.sections) + 1

\* The text holds, for every cell within the limit, one overlap section and
\* one Fock section (one for each spin after BETA ELECTRONS).
EveryCellPrinted ==
    /\ given.family = "canonical"
    /\ CellsAt("O", 1, Len(given.sections)) # {}
    /\ CellsAt("F", 1, BetaAt - 1) = CellsAt("O", 1, Len(given.sections))
    /\ BetaAt <= Len(given.sections)
         => CellsAt("F", BetaAt + 1, Len(given.sections))
              = CellsAt("O", 1, Len(given.sections))

\* The marker each Hamiltonian slice of the record was read under.
HamiltonianTags == IF SpinMode(Self) = "magnetic" THEN tags.alpha ELSE tags.fock

\* C9: in the final record the overlap stack, the Hamiltonian stack and the
\* translation vectors have the same length, and at every position the three
\* belong to the same cell (same cell index and coefficients), in whatever
\* order the overlap and Fock sections stand in the text.
C9_StackAlignment ==
    (pc = "done" /\ EveryCellPrinted)
        => /\ Len(systemInfo.overlap) = Len(systemInfo.hamiltonian)
           /\ Len(systemInfo.overlap) = Len(systemInfo.bravaisVectors)
           /\ Len(HamiltonianTags) = Len(systemInfo.hamiltonian)
           /\ \A i \in 1..Len(systemInfo.overlap) :
                 /\ tags.overlap[i] = tags.vectors[i]
                 /\ tags.overlap[i] = HamiltonianTags[i]
                 /\ SpinMode(Self) = "magnetic" => tags.beta[i] = tags.alpha[i]

\* C10: when the header line of the atom table (it contains ATOM and SHELL)
\* is reached and the atom count has not been parsed, the scan ends with a
\* logic error after that one line: parseAtoms reads nothing, and no motif,
\* species or shell counts are produced.
C10_AtomsBeforeCount ==
    [][(Reads("atoms") /\ natoms = 0)
          => /\ pc' = "logic_error"
             /\ pos' = pos + 1
             /\ motif' = <<>> /\ shellsPerSpecies' = <<>> /\ nspecies' = 0
             /\ systemInfo' = NoInfo]_vars

\* The scan has stopped at the header of an atom table that lists atoms.
C10_Witness ==
    /\ pc = "logic_error"
    /\ given.family = "early" /\ given.labels # <<>>
    /\ Find(file[pos], "ATOM") /\ Find(file[pos], "SHELL")
    /\ HasLine(file, pos + 1)
    /\ motif = <<>> /\ natoms = 0

\* The lattice section of a text that ends inside it has been read.
ShortParsed == given.family = "short" /\ pos >= 1

\* C11: when the text ends with fewer than three lattice-vector lines after
\* the lattice marker, the parse stops with a fatal error and produces
\* neither a lattice nor a dimension.
C11_ShortLattice ==
    ShortParsed
        => /\ pc \in ExplicitErrors
           /\ bravaisLattice = <<>> /\ ndim = 0
           /\ systemInfo = NoInfo

\* C12: when the spin-orbit flag is set the parse ends with an explicit
\* error: no record is emitted with the Fock matrices dropped.
C12_SpinOrbitRejected ==
    (SOC_FLAG /\ pc # "scan")
        => /\ pc \in ExplicitErrors
           /\ systemInfo = NoInfo

\* The next line is the marker of a matrix section whose cell index is over
\* the limit.
RejectedMarkerNext ==
    /\ given.family \in {"free", "canonical"}
    /\ pc = "scan" /\ HasLine(file, pos)
    /\ Find(NextLine, "OVERLAP MATRIX") \/ Find(NextLine, "FOCK MATRIX")
    /\ MatrixMarker(Substr(NextLine)).cellIndex > ncells

\* The number of lines of the block printed under marker line.
BlockLines(line) ==
    Len(Blocks(Zeros(DriverDim), Widths(DriverDim, Find(line, "FOCK MATRIX")), 1))

\* C13 as stated: on the marker of a section whose cell index is over the
\* limit the block reader still runs over the section's block: the stream
\* position moves past the line of the bottom-right corner before the scan
\* looks at another line.
C13_Original ==
    [][RejectedMarkerNext => pos' = pos + 1 + BlockLines(NextLine)]_vars

\* A line of the block of a rejected section is the next line: only lines
\* without a marker lie between it and the rejected marker before it.
InRejectedBlock ==
    /\ given.family \in {"free", "canonical"}
    /\ pc = "scan" /\ HasLine(file, pos)
    /\ NextLine.marks = {}
    /\ \E k \in 1..pos :
          /\ Find(file[k], "OVERLAP MATRIX") \/ Find(file[k], "FOCK MATRIX")
          /\ MatrixMarker(Substr(file[k])).cellIndex > ncells
          /\ \A j \in (k + 1)..pos : file[j].marks = {}

\* C13: on the marker of a section whose cell index is over the limit the
\* block reader is not run: the position moves past the marker line only,
\* and every line of the section's block is then read by the main loop, one
\* line a turn, changing nothing else in the object.
C13_RejectedSkipped ==
    [][(RejectedMarkerNext \/ InRejectedBlock)
          => [Self EXCEPT !.pos = pos + 1] = Self']_vars

\* The scan stands at the first line of the block of a rejected section.
C13_Witness ==
    /\ InRejectedBlock
    /\ pos >= 1 /\ file[pos].marks # {}
    /\ IsEmpty(NextLine)
    /\ overlapMatrices = <<>> /\ fockMatrices = <<>>

\* The section of the text whose marker is line p.
SectionAt(p) ==
    CHOOSE i \in 1..Len(given.sections) :
        Len(given.prefix) + Len(SectionsText(SubSeq(given.sections, 1, i - 1))) + 1 = p

\* The next line is the marker of a Fock section within the limit.
AcceptedFockNext ==
    /\ given.family \in {"free", "canonical"}
    /\ pc = "scan" /\ HasLine(file, pos)
    /\ Find(NextLine, "FOCK MATRIX")
    /\ MatrixMarker(Substr(NextLine)).cellIndex <= ncells

\* A line with BETA and ELECTRONS is among the first p lines.
BetaSeen(p) ==
    \E k \in 1..p : Find(file[k], "BETA") /\ Find(file[k], "ELECTRONS")

\* The stack named dest gains M and the other three stay as they are.
OnlyGains(dest, M) ==
    /\ alphaMatrices' = IF dest = "alpha" THEN Append(alphaMatrices, M) ELSE alphaMatrices
    /\ betaMatrices' = IF dest = "beta" THEN Append(betaMatrices, M) ELSE betaMatrices
    /\ fockMatrices' = IF dest = "fock" THEN Append(fockMatrices, M) ELSE fockMatrices
    /\ overlapMatrices' = overlapMatrices
    /\ bravaisVectors' = bravaisVectors

\* C14: for every accepted Fock section the block is read by parseMatrix (the
\* position moves past its last line) and the matrix is appended to exactly
\* one destination chosen by the flags of that moment: alpha when the
\* magnetic flag is set and no BETA ELECTRONS line came before, beta when it
\* is set and one came before, none when only the spin-orbit flag is set,
\* the Fock stack when neither is set; no other stack changes.
C14_FockRouting ==
    [][AcceptedFockNext
          => /\ pos' = pos + 1 + BlockLines(NextLine)
             /\ pc' = "scan"
             /\ OnlyGains(IF MAGNETIC_FLAG
                          THEN (IF BetaSeen(pos) THEN "beta" ELSE "alpha")
                          ELSE IF SOC_FLAG THEN "none" ELSE "fock",
                          given.sections[SectionAt(pos + 1)].M)]_vars

\* Under the magnetic flag Fock sections of both spins have been stored, and
\* nothing went to the Fock stack.
C14_Witness ==
    /\ given.family = "canonical" /\ pc = "scan"
    /\ MAGNETIC_FLAG /\ SOC_FLAG
    /\ Len(alphaMatrices) >= 1 /\ Len(betaMatrices) >= 1
    /\ alphaMatrices[1] # betaMatrices[1]
    /\ fockMatrices = <<>>

\* Line q of the text is a data line at the bottom-right corner of a matrix
\* of dimension D: its row index is D, and the column index that the header
\* of its block (the line after the nearest blank line above) gives to its
\* last value is D.
IsCorner(q, D) ==
    /\ q \in 1..Len(file)
    /\ Len(file[q].toks) >= 2 /\ file[q].marks = {}
    /\ file[q].toks[1].num /\ file[q].toks[1].v = D
    /\ \E b \in 1..(q - 2) :
          /\ IsEmpty(file[b])
          /\ \A j \in (b + 1)..q : ~IsEmpty(file[j])
          /\ Len(file[b + 1].toks) >= Len(file[q].toks) - 1
          /\ file[b + 1].toks[Len(file[q].toks) - 1].v = D

\* The next line is the marker of a well-formed matrix section within the
\* limit.
AcceptedMatrixNext ==
    /\ \/ given.family \in {"free", "canonical"}
       \/ given.family = "matrix" /\ given.complete
    /\ pc = "scan" /\ HasLine(file, pos)
    /\ Find(NextLine, "OVERLAP MATRIX") \/ Find(NextLine, "FOCK MATRIX")
    /\ MatrixMarker(Substr(NextLine)).cellIndex <= ncells

\* C15: parseMatrix returns at the first data line whose row index and last
\* column index both equal the dimension and reads no line after it; on
\* every well-formed blocked text it reaches that line and returns.
C15_Termination ==
    [][AcceptedMatrixNext
          => /\ pc' = "scan"
             /\ IsCorner(pos', norbitals)
             /\ \A q \in (pos + 2)..(pos' - 1) : ~IsCorner(q, norbitals)]_vars

\* parseMatrix has returned at the corner of a matrix printed in two blocks
\* and the line after the corner is still to be read.
C15_Witness ==
    /\ given.family \in {"free", "canonical"} /\ pc = "scan"
    /\ IsCorner(pos, norbitals)
    /\ Len(file[pos].toks) < 1 + norbitals
    /\ HasLine(file, pos) /\ NextLine.marks # {}
    /\ fockMatrices # <<>>

\* The next line is the marker of the basis section of a file that lists
\* the atoms and then their basis.
BasisNext ==
    /\ given.family = "basis"
    /\ pc = "scan" /\ HasLine(file, pos)
    /\ Find(NextLine, "LOCAL ATOMIC FUNCTIONS BASIS SET")

\* The shell types and the table rows the text lists for a species.
TypesListed(label) == IF ShellsOf(label) = 1 THEN <<"SP">> ELSE <<"S", "SP">>
RowsListed(label) ==
    IF ShellsOf(label) = 1 THEN << <<(<<5, 1, 0, 0>>)>> >>
    ELSE << <<(<<5, 1, 0, 0>>), (<<5, 1, 0, 0>>)>>, <<(<<5, 1, 0, 0>>)>> >>

\* Every line of the basis section was read once and for what it is: each
\* species has the shell types of its shell headers and the rows of its
\* tables, and the line after the last table is the next one to read.
ReadOnce(p, types, coefficients) ==
    /\ p = Len(file) - 1
    /\ \A j \in 1..Len(given.labels) :
          LET k == SeenBefore(given.labels, given.labels[j])
          IN /\ k \in DOMAIN types /\ k \in DOMAIN coefficients
             /\ types[k] = TypesListed(given.labels[j])
             /\ coefficients[k] = RowsListed(given.labels[j])

\* C16: the position in the text never moves backwards from one turn of the
\* scan to the next, and the line that ends a table of the basis section is
\* handed back: it is read next as a shell header, an atom line or by the
\* main loop, no line being skipped or taken as a table row twice.
C16_ForwardOnly ==
    [][/\ pos' >= pos
       /\ BasisNext => /\ pc' = "scan"
                       /\ ReadOnce(pos', shellTypesPerSpecies', gaussianCoefficients')]_vars

\* The basis section of two species, one of them with two tables, has been
\* read and the line after it is still to be read by the main loop.
C16_Witness ==
    /\ given.family = "basis" /\ pc = "scan"
    /\ pos = Len(file) - 1
    /\ Cardinality({given.labels[j] : j \in 1..Len(given.labels)}) = 2
    /\ Len(gaussianCoefficients[0]) + Len(gaussianCoefficients[1]) = 3

\* A basis section of a file that lists the atoms and then their basis has
\* been read.
BasisRead ==
    /\ given.family \in {"basis", "twice"} /\ pc = "scan"
    /\ \E q \in 1..pos : Find(file[q], "LOCAL ATOMIC FUNCTIONS BASIS SET")

\* The distinct species labels of the atoms.
Species == {given.labels[j] : j \in 1..Len(given.labels)}

\* C17: once the basis is read, however many sections the text holds, the
\* list of orbital counts, the catalog of shell types and the catalog of
\* Gaussian coefficients hold one entry for each distinct species, at the
\* index the atom table gave the species in order of first appearance; an
\* atom of a species seen before adds no entry.
C17_OnePerSpecies ==
    BasisRead
        => /\ Len(orbitalsPerSpecies) = Cardinality(Species)
           /\ DOMAIN shellTypesPerSpecies = 0..(Cardinality(Species) - 1)
           /\ DOMAIN gaussianCoefficients = 0..(Cardinality(Species) - 1)
           /\ \A j \in 1..Len(given.labels) :
                 /\ motif[j][4] = SeenBefore(given.labels, given.labels[j])
                 /\ shellTypesPerSpecies[motif[j][4]] = TypesListed(given.labels[j])
                 /\ gaussianCoefficients[motif[j][4]] = RowsListed(given.labels[j])

\* The next line is the marker of an overlap section within the limit.
AcceptedOverlapNext ==
    /\ given.family \in {"free", "canonical"}
    /\ pc = "scan" /\ HasLine(file, pos)
    /\ Find(NextLine, "OVERLAP MATRIX")
    /\ MatrixMarker(Substr(NextLine)).cellIndex <= ncells

\* The sum over i < ndim of retained lattice vector i times coefficient i of
\* the marker of cell.
Translation(cell) ==
    [k \in 1..3 |-> SumOver(LAMBDA i : bravaisLattice[i][k] * Coef(cell)[i], ndim, 0)]

LineNext == pc = "scan" /\ HasLine(file, pos)

\* One step of the scan as C19 has it: the alpha flag stays as it is unless
\* the line read holds BETA and ELECTRONS, which clears it; no flag once set
\* is cleared; a slice joins the alpha stack only under the magnetic flag
\* with no BETA ELECTRONS line read so far, and the beta stack only under it
\* with one read.
OneWay ==
    /\ alpha_electrons' => alpha_electrons
    /\ SOC_FLAG => SOC_FLAG'
    /\ MAGNETIC_FLAG => MAGNETIC_FLAG'
    /\ (LineNext /\ pc' = "scan")
          => (alpha_electrons' <=> ~BetaSeen(pos + 1))
    /\ ~LineNext => alpha_electrons' = alpha_electrons
    /\ Len(alphaMatrices') > Len(alphaMatrices)
          => MAGNETIC_FLAG' /\ ~BetaSeen(pos + 1)
    /\ Len(betaMatrices') > Len(betaMatrices)
          => MAGNETIC_FLAG' /\ BetaSeen(pos + 1)

\* C19: the alpha flag starts true, is cleared by the first line holding
\* both BETA and ELECTRONS and never set again; the spin-orbit and magnetic
\* flags are never cleared; so under the magnetic flag the alpha stack holds
\* the Fock sections read before that line and the beta stack those after.
C19_BetaOneWay == [][OneWay]_vars

\* A magnetic file read to its end: Fock sections before and after the BETA
\* ELECTRONS line, the alpha flag cleared.
C19_Witness ==
    /\ given.family = "canonical" /\ pc = "scan" /\ ~HasLine(file, pos)
    /\ MAGNETIC_FLAG /\ ~alpha_electrons /\ BetaSeen(pos)
    /\ Len(alphaMatrices) = MaxCell /\ Len(betaMatrices) = MaxCell

\* The matrices of the sections of one kind within the limit, in the order
\* of the text.
Listed(kind) ==
    LET acc == SelectSeq(given.sections,
                         LAMBDA sec : sec.kind = kind /\ sec.cell <= ncells)
    IN [i \in 1..Len(acc) |-> acc[i].M]

\* mapContent has filled the record and no spin flag was set.
EmittedWithoutSpin == pc = "done" /\ ~SOC_FLAG /\ ~MAGNETIC_FLAG

\* C20: with neither spin flag set, the Hamiltonian of the record is the
\* sequence of the Fock matrices of the sections within the limit in the
\* order they were read, the overlap that of the overlap matrices, the
\* filling is half the electron count and the orbital counts are those
\* recorded per species, not doubled.
C20_PassThrough ==
    EmittedWithoutSpin
        => /\ systemInfo.filling_x2 = totalElectrons
           /\ systemInfo.norbitals = orbitalsPerSpecies
           /\ given.family = "basis"
                 => /\ systemInfo.filling_x2 = 12
                    /\ Len(systemInfo.norbitals) = Cardinality(Species)
                    /\ given.running
                          => \A j \in 1..Len(given.labels) :
                                systemInfo.norbitals[motif[j][4] + 1]
                                    = given.counts[given.labels[j]]
           /\ given.family = "canonical" => systemInfo.filling_x2 = 4
           /\ given.family \in {"free", "canonical"}
                 => /\ systemInfo.hamiltonian = Listed("F")
                    /\ systemInfo.overlap = Listed("O")

\* The record of a file without spin flags whose Fock sections list the
\* cells in the reverse of the order of the overlap sections.
C20_Witness ==
    /\ EmittedWithoutSpin /\ given.family = "canonical"
    /\ Len(systemInfo.hamiltonian) = MaxCell /\ Len(systemInfo.overlap) = MaxCell
    /\ tags.fock = Reverse(tags.overlap)
    /\ systemInfo.filling_x2 = 4

\* The table of atoms that follows the atom count has been parsed.
AtomsPassDone ==
    /\ given.family \in {"atoms", "again", "basis", "twice"}
    /\ pc = "scan" /\ pos >= 3 + Len(given.labels)

\* C21: once the table of atoms has been parsed, no later line of the text,
\* a line with ATOM and SHELL included, changes the motif with its species
\* indices, the shell counts per species or the species count.
C21_MotifOnce ==
    [][AtomsPassDone
          => /\ motif' = motif
             /\ shellsPerSpecies' = shellsPerSpecies
             /\ nspecies' = nspecies]_vars

\* The next line is the marker of a matrix section within the limit,
\* whatever follows it.
MatrixMarkerNext ==
    /\ pc = "scan" /\ HasLine(file, pos)
    /\ \/ BranchOf(NextLine) = "overlap"
       \/ Find(NextLine, "FOCK MATRIX")
    /\ MatrixMarker(Substr(NextLine)).cellIndex <= ncells

\* C22: on every text, each value parseMatrix stores lands inside the D x D
\* matrix and each column lookup inside the list of column indices: no data
\* line holds more values than the line of column indices before it, and none
\* is processed before such a line has been read.
C22_IndexSafety ==
    MatrixMarkerNext => parseMatrix(file, pos + 1, norbitals).status # "oob"

====
